---- MODULE Spec2Model ----
(***************************************************************************)
(* Model of src/dyndns.py: the hosting.de DNS API client                   *)
(* (HostingDEDNSAPIClient) and the CherryPy update handler (Root.dyndns).  *)
(*                                                                         *)
(* Python values are modelled as follows.                                  *)
(*   - A request parameter that may be None is a sequence of length 0 or   *)
(*     1: None is << >> and a present value x is <<x>>.                    *)
(*   - A value parsed from JSON is a tagged record: JNull (None), JBool,   *)
(*     JInt, JStr, JList (items) and JDict (keys and vals, in the order of *)
(*     the document).  The operators Py... give Python's len(), bool(),    *)
(*     str(), ==, subscripting and .get() on these values, with the        *)
(*     exception Python raises where an operation is not defined.          *)
(*   - A Python string (a JSON string, a key, a message, a response body)  *)
(*     is the sequence of its code points, so that str() and repr() are    *)
(*     computed on every character Python has.  The request parameters     *)
(*     domain, ipv4 and ipv6 are only compared and passed on; they are     *)
(*     kept as opaque strings.                                             *)
(*   - The outcome of a call is a record [kind, error_code, error_data,    *)
(*     value]: kind "return" carries the returned value in value[1]; kind  *)
(*     "DNSAPIException" carries error_code and error_data; any other kind *)
(*     is the name of the Python exception raised, with the missing key in *)
(*     error_data when it is a KeyError.                                   *)
(*   - A provider response is [answered, status_code, utf8, text, json]:   *)
(*     answered is FALSE when requests.post raises instead of returning,   *)
(*     utf8 says whether response.content decodes as UTF-8 and text is the *)
(*     decoded body, json is what response.json() returns (<< >> when it   *)
(*     raises ValueError).                                                 *)
(***************************************************************************)
EXTENDS Integers, Sequences, FiniteSets, TLC

VARIABLES
    allowed_domains,  \* Root.allowed_domains
    default_ttl,      \* HostingDEDNSAPIClient.default_ttl
    domain,           \* request parameter domain (optional string)
    ipv4,             \* request parameter ipv4   (optional string)
    ipv6,             \* request parameter ipv6   (optional string)
    ttl,              \* request parameter ttl    (optional integer)
    pc,               \* position of the running call
    cur,              \* record type being updated ("A", "AAAA", "-")
    record_id,        \* update_resource_record: record_id (optional JSON value)
    status,           \* cherrypy.response.status
    results,          \* Root.dyndns: results (list of lines)
    body,             \* the returned response body
    calls,            \* requests sent to the provider, in order
    exc,              \* exception that left the running call, or NoOutcome
    resp,             \* responses received by the client under test, in order
    ret               \* outcome of the client function under test

vars == <<allowed_domains, default_ttl, domain, ipv4, ipv6, ttl, pc, cur,
          record_id, status, results, body, calls, exc, resp, ret>>

-----------------------------------------------------------------------------
(* Bounds of the model *)

MaxErrors == 2     \* longest "errors" list of a provider response
MaxData == 2       \* longest "data" list of a recordsFind response
MaxRecords == 2    \* longest "records" list of a recordsUpdate response
MaxAllowed == 2    \* longest allowed_domains list
MaxTtl == 60       \* largest ttl a request supplies

-----------------------------------------------------------------------------
(* Python values *)

None == << >>
Some(x) == <<x>>

\* bool(s) of an optional string: None and "" are falsy
TruthyStr(o) == o /= None /\ o[1] /= ""

\* bool(n) of an optional integer: None and 0 are falsy
TruthyInt(o) == o /= None /\ o[1] /= 0

SeqsUpTo(S, n) == UNION {[1..k -> S] : k \in 0..n}

JNull == [t |-> "null"]
JBool(b) == [t |-> "bool", b |-> b]
JInt(n) == [t |-> "int", n |-> n]
JStr(s) == [t |-> "str", s |-> s]
JList(items) == [t |-> "list", items |-> items]
JDict(keys, vals) == [t |-> "dict", keys |-> keys, vals |-> vals]

\* A Python string is the sequence of its code points; Str gives the string
\* that a literal of printable ASCII characters denotes.
AsciiFrom32 == " !\"#$%&'()*+,-./0123456789:;<=>?@ABCDEFGHIJKLMNOPQRSTUVWXYZ[\\]^_"
AsciiFrom97 == "abcdefghijklmnopqrstuvwxyz{|}~"

\* ord(c) of a printable ASCII character
OrdTable ==
    [c \in {SubSeq(AsciiFrom32, i, i) : i \in 1..Len(AsciiFrom32)}
            \cup {SubSeq(AsciiFrom97, i, i) : i \in 1..Len(AsciiFrom97)} |->
        IF \E i \in 1..Len(AsciiFrom97) : SubSeq(AsciiFrom97, i, i) = c
        THEN 96 + (CHOOSE i \in 1..Len(AsciiFrom97) : SubSeq(AsciiFrom97, i, i) = c)
        ELSE 31 + (CHOOSE i \in 1..Len(AsciiFrom32) : SubSeq(AsciiFrom32, i, i) = c)]
Ord(c) == OrdTable[c]

Str(text) == [i \in 1..Len(text) |-> Ord(SubSeq(text, i, i))]

\* str(n) of an integer
RECURSIVE Digits(_)
Digits(n) ==
    IF n < 0 THEN <<45>> \o Digits(0 - n)
    ELSE IF n < 10 THEN <<48 + n>>
    ELSE Digits(n \div 10) \o <<48 + (n % 10)>>

\* a JSON string given by a literal
JText(text) == JStr(Str(text))

\* the keys the code reads
key_errors == Str("errors")
key_value == Str("value")
key_text == Str("text")
key_code == Str("code")
key_response == Str("response")
key_data == Str("data")
key_id == Str("id")
key_records == Str("records")
key_name == Str("name")
key_content == Str("content")
key_ttl == Str("ttl")
key_lastChangeDate == Str("lastChangeDate")
key_error == Str("error")

Return(v) == [kind |-> "return", error_code |-> JNull, error_data |-> JNull, value |-> Some(v)]

\* an exception other than DNSAPIException: its class and, for a KeyError, the
\* key (error_data is None otherwise)
PyRaise(name, key) ==
    [kind |-> name, error_code |-> JNull, error_data |-> key, value |-> None]

NoOutcome == [kind |-> "none", error_code |-> JNull, error_data |-> JNull, value |-> None]

\* key in d, for a dict d
HasKey(d, key) == \E i \in 1..Len(d.keys) : d.keys[i] = key

\* d[key] for a dict d that has the key; d.get(key) when it may not
Get(d, key) ==
    IF HasKey(d, key)
    THEN d.vals[CHOOSE i \in 1..Len(d.keys) : d.keys[i] = key]
    ELSE JNull

\* bool(v)
PyTruthy(v) ==
    CASE v.t = "null" -> FALSE
      [] v.t = "bool" -> v.b
      [] v.t = "int"  -> v.n /= 0
      [] v.t = "str"  -> Len(v.s) > 0
      [] v.t = "list" -> Len(v.items) > 0
      [] v.t = "dict" -> Len(v.keys) > 0

\* len(v) is defined
HasLen(v) == v.t \in {"str", "list", "dict"}

\* len(v), where defined
PyLen(v) ==
    CASE v.t = "str"  -> Len(v.s)
      [] v.t = "list" -> Len(v.items)
      [] v.t = "dict" -> Len(v.keys)

\* v[0] for a value with len(v) > 0: a dict parsed from JSON has no key 0
PySubscript0(v) ==
    CASE v.t = "list" -> Return(v.items[1])
      [] v.t = "str"  -> Return(JStr(<<v.s[1]>>))
      [] v.t = "dict" -> PyRaise("KeyError", JInt(0))

\* v[key] for a string key
PySubscript(v, key) ==
    IF v.t = "dict"
    THEN IF HasKey(v, key) THEN Return(Get(v, key)) ELSE PyRaise("KeyError", JStr(key))
    ELSE PyRaise("TypeError", JNull)

\* the elements a for loop over v visits (the keys, for a dict); v is iterable
PyIter(v) ==
    CASE v.t = "list" -> v.items
      [] v.t = "str"  -> [i \in 1..Len(v.s) |-> JStr(<<v.s[i]>>)]
      [] v.t = "dict" -> [i \in 1..Len(v.keys) |-> JStr(v.keys[i])]

\* the code points c for which chr(c).isprintable() is False, as ranges
\* <<first, last>> (Unicode 14.0, the character database of CPython 3.11)
NonPrintableRanges ==
    <<<<0, 31>>, <<127, 160>>, <<173, 173>>, <<888, 889>>, <<896, 899>>,
      <<907, 907>>, <<909, 909>>, <<930, 930>>, <<1328, 1328>>, <<1367, 1368>>,
      <<1419, 1420>>, <<1424, 1424>>, <<1480, 1487>>, <<1515, 1518>>, <<1525, 1541>>,
      <<1564, 1564>>, <<1757, 1757>>, <<1806, 1807>>, <<1867, 1868>>, <<1970, 1983>>,
      <<2043, 2044>>, <<2094, 2095>>, <<2111, 2111>>, <<2140, 2141>>, <<2143, 2143>>,
      <<2155, 2159>>, <<2191, 2199>>, <<2274, 2274>>, <<2436, 2436>>, <<2445, 2446>>,
      <<2449, 2450>>, <<2473, 2473>>, <<2481, 2481>>, <<2483, 2485>>, <<2490, 2491>>,
      <<2501, 2502>>, <<2505, 2506>>, <<2511, 2518>>, <<2520, 2523>>, <<2526, 2526>>,
      <<2532, 2533>>, <<2559, 2560>>, <<2564, 2564>>, <<2571, 2574>>, <<2577, 2578>>,
      <<2601, 2601>>, <<2609, 2609>>, <<2612, 2612>>, <<2615, 2615>>, <<2618, 2619>>,
      <<2621, 2621>>, <<2627, 2630>>, <<2633, 2634>>, <<2638, 2640>>, <<2642, 2648>>,
      <<2653, 2653>>, <<2655, 2661>>, <<2679, 2688>>, <<2692, 2692>>, <<2702, 2702>>,
      <<2706, 2706>>, <<2729, 2729>>, <<2737, 2737>>, <<2740, 2740>>, <<2746, 2747>>,
      <<2758, 2758>>, <<2762, 2762>>, <<2766, 2767>>, <<2769, 2783>>, <<2788, 2789>>,
      <<2802, 2808>>, <<2816, 2816>>, <<2820, 2820>>, <<2829, 2830>>, <<2833, 2834>>,
      <<2857, 2857>>, <<2865, 2865>>, <<2868, 2868>>, <<2874, 2875>>, <<2885, 2886>>,
      <<2889, 2890>>, <<2894, 2900>>, <<2904, 2907>>, <<2910, 2910>>, <<2916, 2917>>,
      <<2936, 2945>>, <<2948, 2948>>, <<2955, 2957>>, <<2961, 2961>>, <<2966, 2968>>,
      <<2971, 2971>>, <<2973, 2973>>, <<2976, 2978>>, <<2981, 2983>>, <<2987, 2989>>,
      <<3002, 3005>>, <<3011, 3013>>, <<3017, 3017>>, <<3022, 3023>>, <<3025, 3030>>,
      <<3032, 3045>>, <<3067, 3071>>, <<3085, 3085>>, <<3089, 3089>>, <<3113, 3113>>,
      <<3130, 3131>>, <<3141, 3141>>, <<3145, 3145>>, <<3150, 3156>>, <<3159, 3159>>,
      <<3163, 3164>>, <<3166, 3167>>, <<3172, 3173>>, <<3184, 3190>>, <<3213, 3213>>,
      <<3217, 3217>>, <<3241, 3241>>, <<3252, 3252>>, <<3258, 3259>>, <<3269, 3269>>,
      <<3273, 3273>>, <<3278, 3284>>, <<3287, 3292>>, <<3295, 3295>>, <<3300, 3301>>,
      <<3312, 3312>>, <<3315, 3327>>, <<3341, 3341>>, <<3345, 3345>>, <<3397, 3397>>,
      <<3401, 3401>>, <<3408, 3411>>, <<3428, 3429>>, <<3456, 3456>>, <<3460, 3460>>,
      <<3479, 3481>>, <<3506, 3506>>, <<3516, 3516>>, <<3518, 3519>>, <<3527, 3529>>,
      <<3531, 3534>>, <<3541, 3541>>, <<3543, 3543>>, <<3552, 3557>>, <<3568, 3569>>,
      <<3573, 3584>>, <<3643, 3646>>, <<3676, 3712>>, <<3715, 3715>>, <<3717, 3717>>,
      <<3723, 3723>>, <<3748, 3748>>, <<3750, 3750>>, <<3774, 3775>>, <<3781, 3781>>,
      <<3783, 3783>>, <<3790, 3791>>, <<3802, 3803>>, <<3808, 3839>>, <<3912, 3912>>,
      <<3949, 3952>>, <<3992, 3992>>, <<4029, 4029>>, <<4045, 4045>>, <<4059, 4095>>,
      <<4294, 4294>>, <<4296, 4300>>, <<4302, 4303>>, <<4681, 4681>>, <<4686, 4687>>,
      <<4695, 4695>>, <<4697, 4697>>, <<4702, 4703>>, <<4745, 4745>>, <<4750, 4751>>,
      <<4785, 4785>>, <<4790, 4791>>, <<4799, 4799>>, <<4801, 4801>>, <<4806, 4807>>,
      <<4823, 4823>>, <<4881, 4881>>, <<4886, 4887>>, <<4955, 4956>>, <<4989, 4991>>,
      <<5018, 5023>>, <<5110, 5111>>, <<5118, 5119>>, <<5760, 5760>>, <<5789, 5791>>,
      <<5881, 5887>>, <<5910, 5918>>, <<5943, 5951>>, <<5972, 5983>>, <<5997, 5997>>,
      <<6001, 6001>>, <<6004, 6015>>, <<6110, 6111>>, <<6122, 6127>>, <<6138, 6143>>,
      <<6158, 6158>>, <<6170, 6175>>, <<6265, 6271>>, <<6315, 6319>>, <<6390, 6399>>,
      <<6431, 6431>>, <<6444, 6447>>, <<6460, 6463>>, <<6465, 6467>>, <<6510, 6511>>,
      <<6517, 6527>>, <<6572, 6575>>, <<6602, 6607>>, <<6619, 6621>>, <<6684, 6685>>,
      <<6751, 6751>>, <<6781, 6782>>, <<6794, 6799>>, <<6810, 6815>>, <<6830, 6831>>,
      <<6863, 6911>>, <<6989, 6991>>, <<7039, 7039>>, <<7156, 7163>>, <<7224, 7226>>,
      <<7242, 7244>>, <<7305, 7311>>, <<7355, 7356>>, <<7368, 7375>>, <<7419, 7423>>,
      <<7958, 7959>>, <<7966, 7967>>, <<8006, 8007>>, <<8014, 8015>>, <<8024, 8024>>,
      <<8026, 8026>>, <<8028, 8028>>, <<8030, 8030>>, <<8062, 8063>>, <<8117, 8117>>,
      <<8133, 8133>>, <<8148, 8149>>, <<8156, 8156>>, <<8176, 8177>>, <<8181, 8181>>,
      <<8191, 8207>>, <<8232, 8239>>, <<8287, 8303>>, <<8306, 8307>>, <<8335, 8335>>,
      <<8349, 8351>>, <<8385, 8399>>, <<8433, 8447>>, <<8588, 8591>>, <<9255, 9279>>,
      <<9291, 9311>>, <<11124, 11125>>, <<11158, 11158>>, <<11508, 11512>>, <<11558, 11558>>,
      <<11560, 11564>>, <<11566, 11567>>, <<11624, 11630>>, <<11633, 11646>>, <<11671, 11679>>,
      <<11687, 11687>>, <<11695, 11695>>, <<11703, 11703>>, <<11711, 11711>>, <<11719, 11719>>,
      <<11727, 11727>>, <<11735, 11735>>, <<11743, 11743>>, <<11870, 11903>>, <<11930, 11930>>,
      <<12020, 12031>>, <<12246, 12271>>, <<12284, 12288>>, <<12352, 12352>>, <<12439, 12440>>,
      <<12544, 12548>>, <<12592, 12592>>, <<12687, 12687>>, <<12772, 12783>>, <<12831, 12831>>,
      <<42125, 42127>>, <<42183, 42191>>, <<42540, 42559>>, <<42744, 42751>>, <<42955, 42959>>,
      <<42962, 42962>>, <<42964, 42964>>, <<42970, 42993>>, <<43053, 43055>>, <<43066, 43071>>,
      <<43128, 43135>>, <<43206, 43213>>, <<43226, 43231>>, <<43348, 43358>>, <<43389, 43391>>,
      <<43470, 43470>>, <<43482, 43485>>, <<43519, 43519>>, <<43575, 43583>>, <<43598, 43599>>,
      <<43610, 43611>>, <<43715, 43738>>, <<43767, 43776>>, <<43783, 43784>>, <<43791, 43792>>,
      <<43799, 43807>>, <<43815, 43815>>, <<43823, 43823>>, <<43884, 43887>>, <<44014, 44015>>,
      <<44026, 44031>>, <<55204, 55215>>, <<55239, 55242>>, <<55292, 63743>>, <<64110, 64111>>,
      <<64218, 64255>>, <<64263, 64274>>, <<64280, 64284>>, <<64311, 64311>>, <<64317, 64317>>,
      <<64319, 64319>>, <<64322, 64322>>, <<64325, 64325>>, <<64451, 64466>>, <<64912, 64913>>,
      <<64968, 64974>>, <<64976, 65007>>, <<65050, 65055>>, <<65107, 65107>>, <<65127, 65127>>,
      <<65132, 65135>>, <<65141, 65141>>, <<65277, 65280>>, <<65471, 65473>>, <<65480, 65481>>,
      <<65488, 65489>>, <<65496, 65497>>, <<65501, 65503>>, <<65511, 65511>>, <<65519, 65531>>,
      <<65534, 65535>>, <<65548, 65548>>, <<65575, 65575>>, <<65595, 65595>>, <<65598, 65598>>,
      <<65614, 65615>>, <<65630, 65663>>, <<65787, 65791>>, <<65795, 65798>>, <<65844, 65846>>,
      <<65935, 65935>>, <<65949, 65951>>, <<65953, 65999>>, <<66046, 66175>>, <<66205, 66207>>,
      <<66257, 66271>>, <<66300, 66303>>, <<66340, 66348>>, <<66379, 66383>>, <<66427, 66431>>,
      <<66462, 66462>>, <<66500, 66503>>, <<66518, 66559>>, <<66718, 66719>>, <<66730, 66735>>,
      <<66772, 66775>>, <<66812, 66815>>, <<66856, 66863>>, <<66916, 66926>>, <<66939, 66939>>,
      <<66955, 66955>>, <<66963, 66963>>, <<66966, 66966>>, <<66978, 66978>>, <<66994, 66994>>,
      <<67002, 67002>>, <<67005, 67071>>, <<67383, 67391>>, <<67414, 67423>>, <<67432, 67455>>,
      <<67462, 67462>>, <<67505, 67505>>, <<67515, 67583>>, <<67590, 67591>>, <<67593, 67593>>,
      <<67638, 67638>>, <<67641, 67643>>, <<67645, 67646>>, <<67670, 67670>>, <<67743, 67750>>,
      <<67760, 67807>>, <<67827, 67827>>, <<67830, 67834>>, <<67868, 67870>>, <<67898, 67902>>,
      <<67904, 67967>>, <<68024, 68027>>, <<68048, 68049>>, <<68100, 68100>>, <<68103, 68107>>,
      <<68116, 68116>>, <<68120, 68120>>, <<68150, 68151>>, <<68155, 68158>>, <<68169, 68175>>,
      <<68185, 68191>>, <<68256, 68287>>, <<68327, 68330>>, <<68343, 68351>>, <<68406, 68408>>,
      <<68438, 68439>>, <<68467, 68471>>, <<68498, 68504>>, <<68509, 68520>>, <<68528, 68607>>,
      <<68681, 68735>>, <<68787, 68799>>, <<68851, 68857>>, <<68904, 68911>>, <<68922, 69215>>,
      <<69247, 69247>>, <<69290, 69290>>, <<69294, 69295>>, <<69298, 69375>>, <<69416, 69423>>,
      <<69466, 69487>>, <<69514, 69551>>, <<69580, 69599>>, <<69623, 69631>>, <<69710, 69713>>,
      <<69750, 69758>>, <<69821, 69821>>, <<69827, 69839>>, <<69865, 69871>>, <<69882, 69887>>,
      <<69941, 69941>>, <<69960, 69967>>, <<70007, 70015>>, <<70112, 70112>>, <<70133, 70143>>,
      <<70162, 70162>>, <<70207, 70271>>, <<70279, 70279>>, <<70281, 70281>>, <<70286, 70286>>,
      <<70302, 70302>>, <<70314, 70319>>, <<70379, 70383>>, <<70394, 70399>>, <<70404, 70404>>,
      <<70413, 70414>>, <<70417, 70418>>, <<70441, 70441>>, <<70449, 70449>>, <<70452, 70452>>,
      <<70458, 70458>>, <<70469, 70470>>, <<70473, 70474>>, <<70478, 70479>>, <<70481, 70486>>,
      <<70488, 70492>>, <<70500, 70501>>, <<70509, 70511>>, <<70517, 70655>>, <<70748, 70748>>,
      <<70754, 70783>>, <<70856, 70863>>, <<70874, 71039>>, <<71094, 71095>>, <<71134, 71167>>,
      <<71237, 71247>>, <<71258, 71263>>, <<71277, 71295>>, <<71354, 71359>>, <<71370, 71423>>,
      <<71451, 71452>>, <<71468, 71471>>, <<71495, 71679>>, <<71740, 71839>>, <<71923, 71934>>,
      <<71943, 71944>>, <<71946, 71947>>, <<71956, 71956>>, <<71959, 71959>>, <<71990, 71990>>,
      <<71993, 71994>>, <<72007, 72015>>, <<72026, 72095>>, <<72104, 72105>>, <<72152, 72153>>,
      <<72165, 72191>>, <<72264, 72271>>, <<72355, 72367>>, <<72441, 72703>>, <<72713, 72713>>,
      <<72759, 72759>>, <<72774, 72783>>, <<72813, 72815>>, <<72848, 72849>>, <<72872, 72872>>,
      <<72887, 72959>>, <<72967, 72967>>, <<72970, 72970>>, <<73015, 73017>>, <<73019, 73019>>,
      <<73022, 73022>>, <<73032, 73039>>, <<73050, 73055>>, <<73062, 73062>>, <<73065, 73065>>,
      <<73103, 73103>>, <<73106, 73106>>, <<73113, 73119>>, <<73130, 73439>>, <<73465, 73647>>,
      <<73649, 73663>>, <<73714, 73726>>, <<74650, 74751>>, <<74863, 74863>>, <<74869, 74879>>,
      <<75076, 77711>>, <<77811, 77823>>, <<78895, 82943>>, <<83527, 92159>>, <<92729, 92735>>,
      <<92767, 92767>>, <<92778, 92781>>, <<92863, 92863>>, <<92874, 92879>>, <<92910, 92911>>,
      <<92918, 92927>>, <<92998, 93007>>, <<93018, 93018>>, <<93026, 93026>>, <<93048, 93052>>,
      <<93072, 93759>>, <<93851, 93951>>, <<94027, 94030>>, <<94088, 94094>>, <<94112, 94175>>,
      <<94181, 94191>>, <<94194, 94207>>, <<100344, 100351>>, <<101590, 101631>>, <<101641, 110575>>,
      <<110580, 110580>>, <<110588, 110588>>, <<110591, 110591>>, <<110883, 110927>>, <<110931, 110947>>,
      <<110952, 110959>>, <<111356, 113663>>, <<113771, 113775>>, <<113789, 113791>>, <<113801, 113807>>,
      <<113818, 113819>>, <<113824, 118527>>, <<118574, 118575>>, <<118599, 118607>>, <<118724, 118783>>,
      <<119030, 119039>>, <<119079, 119080>>, <<119155, 119162>>, <<119275, 119295>>, <<119366, 119519>>,
      <<119540, 119551>>, <<119639, 119647>>, <<119673, 119807>>, <<119893, 119893>>, <<119965, 119965>>,
      <<119968, 119969>>, <<119971, 119972>>, <<119975, 119976>>, <<119981, 119981>>, <<119994, 119994>>,
      <<119996, 119996>>, <<120004, 120004>>, <<120070, 120070>>, <<120075, 120076>>, <<120085, 120085>>,
      <<120093, 120093>>, <<120122, 120122>>, <<120127, 120127>>, <<120133, 120133>>, <<120135, 120137>>,
      <<120145, 120145>>, <<120486, 120487>>, <<120780, 120781>>, <<121484, 121498>>, <<121504, 121504>>,
      <<121520, 122623>>, <<122655, 122879>>, <<122887, 122887>>, <<122905, 122906>>, <<122914, 122914>>,
      <<122917, 122917>>, <<122923, 123135>>, <<123181, 123183>>, <<123198, 123199>>, <<123210, 123213>>,
      <<123216, 123535>>, <<123567, 123583>>, <<123642, 123646>>, <<123648, 124895>>, <<124903, 124903>>,
      <<124908, 124908>>, <<124911, 124911>>, <<124927, 124927>>, <<125125, 125126>>, <<125143, 125183>>,
      <<125260, 125263>>, <<125274, 125277>>, <<125280, 126064>>, <<126133, 126208>>, <<126270, 126463>>,
      <<126468, 126468>>, <<126496, 126496>>, <<126499, 126499>>, <<126501, 126502>>, <<126504, 126504>>,
      <<126515, 126515>>, <<126520, 126520>>, <<126522, 126522>>, <<126524, 126529>>, <<126531, 126534>>,
      <<126536, 126536>>, <<126538, 126538>>, <<126540, 126540>>, <<126544, 126544>>, <<126547, 126547>>,
      <<126549, 126550>>, <<126552, 126552>>, <<126554, 126554>>, <<126556, 126556>>, <<126558, 126558>>,
      <<126560, 126560>>, <<126563, 126563>>, <<126565, 126566>>, <<126571, 126571>>, <<126579, 126579>>,
      <<126584, 126584>>, <<126589, 126589>>, <<126591, 126591>>, <<126602, 126602>>, <<126620, 126624>>,
      <<126628, 126628>>, <<126634, 126634>>, <<126652, 126703>>, <<126706, 126975>>, <<127020, 127023>>,
      <<127124, 127135>>, <<127151, 127152>>, <<127168, 127168>>, <<127184, 127184>>, <<127222, 127231>>,
      <<127406, 127461>>, <<127491, 127503>>, <<127548, 127551>>, <<127561, 127567>>, <<127570, 127583>>,
      <<127590, 127743>>, <<128728, 128732>>, <<128749, 128751>>, <<128765, 128767>>, <<128884, 128895>>,
      <<128985, 128991>>, <<129004, 129007>>, <<129009, 129023>>, <<129036, 129039>>, <<129096, 129103>>,
      <<129114, 129119>>, <<129160, 129167>>, <<129198, 129199>>, <<129202, 129279>>, <<129620, 129631>>,
      <<129646, 129647>>, <<129653, 129655>>, <<129661, 129663>>, <<129671, 129679>>, <<129709, 129711>>,
      <<129723, 129727>>, <<129734, 129743>>, <<129754, 129759>>, <<129768, 129775>>, <<129783, 129791>>,
      <<129939, 129939>>, <<129995, 130031>>, <<130042, 131071>>, <<173792, 173823>>, <<177977, 177983>>,
      <<178206, 178207>>, <<183970, 183983>>, <<191457, 194559>>, <<195102, 196607>>, <<201547, 917759>>,
      <<918000, 1114111>>>>

\* not chr(c).isprintable()
NonPrintable(c) ==
    IF c >= 32 /\ c <= 126 THEN FALSE
    ELSE \E i \in 1..Len(NonPrintableRanges) :
            NonPrintableRanges[i][1] <= c /\ c <= NonPrintableRanges[i][2]

\* the hexadecimal digit d, in lower case
HexDigit(d) == IF d < 10 THEN 48 + d ELSE 87 + d

\* code in n hexadecimal digits
RECURSIVE Hex(_, _)
Hex(code, n) ==
    IF n = 0 THEN << >> ELSE Hex(code \div 16, n - 1) \o <<HexDigit(code % 16)>>

\* repr(s) of a string, as str.__repr__ writes it: in double quotes when s
\* holds a ' and no ", in single quotes otherwise; the backslash and the quote
\* in use are escaped with a backslash, tab, newline and carriage return are
\* written \t, \n and \r, and every other character that is not printable is
\* written \xNN, \uNNNN or \UNNNNNNNN.

\* the quote repr puts around s
Quote(s) ==
    IF (\E i \in 1..Len(s) : s[i] = 39) /\ ~(\E i \in 1..Len(s) : s[i] = 34)
    THEN 34
    ELSE 39

\* one character c of a string written between the quotes quote
EscapeChar(c, quote) ==
    IF c = 92 \/ c = quote THEN <<92, c>>
    ELSE IF c = 9 THEN <<92, 116>>
    ELSE IF c = 10 THEN <<92, 110>>
    ELSE IF c = 13 THEN <<92, 114>>
    ELSE IF ~NonPrintable(c) THEN <<c>>
    ELSE IF c < 256 THEN <<92, 120>> \o Hex(c, 2)
    ELSE IF c < 65536 THEN <<92, 117>> \o Hex(c, 4)
    ELSE <<92, 85>> \o Hex(c, 8)

RECURSIVE Escape(_, _)
Escape(s, quote) ==
    IF Len(s) = 0 THEN << >>
    ELSE EscapeChar(s[1], quote) \o Escape(Tail(s), quote)

StrRepr(s) == <<Quote(s)>> \o Escape(s, Quote(s)) \o <<Quote(s)>>

ReprNone == Str("None")
ReprTrue == Str("True")
ReprFalse == Str("False")

\* repr(v) and str(v)
RECURSIVE PyRepr(_)
RECURSIVE JoinRepr(_)
RECURSIVE JoinItems(_, _)
JoinRepr(items) ==
    IF Len(items) = 0 THEN << >>
    ELSE IF Len(items) = 1 THEN PyRepr(items[1])
    ELSE PyRepr(items[1]) \o <<44, 32>> \o JoinRepr(Tail(items))
JoinItems(keys, vals) ==
    IF Len(keys) = 0 THEN << >>
    ELSE StrRepr(keys[1]) \o <<58, 32>> \o PyRepr(vals[1])
         \o (IF Len(keys) = 1 THEN << >> ELSE <<44, 32>> \o JoinItems(Tail(keys), Tail(vals)))
PyRepr(v) ==
    CASE v.t = "null" -> ReprNone
      [] v.t = "bool" -> IF v.b THEN ReprTrue ELSE ReprFalse
      [] v.t = "int"  -> Digits(v.n)
      [] v.t = "str"  -> StrRepr(v.s)
      [] v.t = "list" -> <<91>> \o JoinRepr(v.items) \o <<93>>
      [] v.t = "dict" -> <<123>> \o JoinItems(v.keys, v.vals) \o <<125>>

PyStr(v) == IF v.t = "str" THEN v.s ELSE PyRepr(v)

\* a == b: True == 1 and False == 0, a dict compares without the order of its keys
RECURSIVE PyNorm(_)
PyNorm(v) ==
    CASE v.t = "bool" -> JInt(IF v.b THEN 1 ELSE 0)
      [] v.t = "list" -> JList([i \in 1..Len(v.items) |-> PyNorm(v.items[i])])
      [] v.t = "dict" -> [t |-> "dict",
                          kv |-> {<<v.keys[i], PyNorm(v.vals[i])>> : i \in 1..Len(v.keys)}]
      [] OTHER -> v

PyEq(a, b) == PyNorm(a) = PyNorm(b)

\* DNSAPIException.__init__
DNSAPIException(error_code, error_data) ==
    [kind |-> "DNSAPIException", error_code |-> error_code,
     error_data |-> error_data, value |-> None]

\* DNSAPIException.__str__
Dash == Str(" - ")
DNSAPIException_str(e) == PyStr(e.error_code) \o Dash \o PyStr(e.error_data)

-----------------------------------------------------------------------------
(* HostingDEDNSAPIClient.api_request, applied to the provider's response *)

\* the error raised for the first entry of a non-empty "errors"
embedded_error(status_code, errors) ==
    LET first == PySubscript0(errors) IN
    IF first.kind /= "return" THEN first
    ELSE LET error_data == first.value[1] IN
         IF error_data.t /= "dict" THEN PyRaise("AttributeError", JNull)
         ELSE IF ~HasKey(error_data, key_text) THEN PyRaise("KeyError", JStr(key_text))
         ELSE IF ~HasKey(error_data, key_code) THEN PyRaise("KeyError", JStr(key_code))
         ELSE DNSAPIException(Get(error_data, key_code),
                 IF PyTruthy(Get(error_data, key_value))
                 THEN JStr(PyStr(Get(error_data, key_value)) \o Dash
                           \o PyStr(Get(error_data, key_text)))
                 ELSE Get(error_data, key_text))

api_request(response) ==
    IF ~response.answered
    THEN PyRaise("ConnectionError", JNull)
    ELSE IF response.status_code /= 200
    THEN IF response.json /= None
         THEN DNSAPIException(JInt(response.status_code), response.json[1])
         ELSE IF response.utf8
         THEN DNSAPIException(JInt(response.status_code), JStr(response.text))
         ELSE PyRaise("UnicodeDecodeError", JNull)
    ELSE IF response.json = None
    THEN PyRaise("ValueError", JNull)
    ELSE LET json_data == response.json[1] IN
         IF json_data.t /= "dict"
         THEN PyRaise("TypeError", JNull)
         ELSE IF HasKey(json_data, key_errors) /\ ~HasLen(Get(json_data, key_errors))
         THEN PyRaise("TypeError", JNull)
         ELSE IF HasKey(json_data, key_errors) /\ PyLen(Get(json_data, key_errors)) > 0
         THEN embedded_error(response.status_code, Get(json_data, key_errors))
         ELSE PySubscript(json_data, key_response)

-----------------------------------------------------------------------------
(* What the provider can answer.  The provider is outside the program, so   *)
(* a body can be any JSON document: a key the code reads is present or      *)
(* absent, and its value has the expected type or another one.              *)

Obj1(k1, v1) == JDict(<<k1>>, <<v1>>)
Obj2(k1, v1, k2, v2) == JDict(<<k1, k2>>, <<v1, v2>>)
Obj3(k1, v1, k2, v2, k3, v3) == JDict(<<k1, k2, k3>>, <<v1, v2, v3>>)

\* entries of the "errors" list of a 200 body
ErrorEntries ==
    { Obj2(key_text, JText("internal error"), key_code, JInt(500)),
      Obj3(key_value, JText("ttl"), key_text, JText("invalid value"), key_code, JInt(10)),
      Obj3(key_value, JStr(<< >>), key_text, JText("not allowed"), key_code, JInt(403)),
      Obj3(key_value, JInt(7), key_text, JText("too small"), key_code, JText("E7")),
      Obj1(key_code, JInt(500)),
      Obj2(key_value, JText("ttl"), key_text, JText("invalid value")),
      JText("backend down") }

\* the non-empty "errors" lists: any first entry, followed by further entries
FurtherError == Obj3(key_value, JText("zone"), key_text, JText("locked"), key_code, JInt(20))
ErrorLists ==
    { JList(<<e>> \o [i \in 1..k |-> FurtherError]) :
        e \in ErrorEntries, k \in 0..(MaxErrors - 1) }

\* values of "errors" that are not a list
ErrorsNotAList == { JNull, JStr(<< >>), JText("denied"), Obj1(key_code, JInt(1)) }

\* entries of the "data" list of a recordsFind response
DataEntries ==
    { JDict(<< >>, << >>), Obj1(key_id, JStr(<< >>)), Obj1(key_id, JNull),
      Obj1(key_id, JText("r1")), Obj1(key_id, JText("r2")), Obj1(key_id, JInt(7)),
      JText("r1") }

\* the "data" lists: empty, or any first entry followed by further entries
FurtherData == Obj1(key_id, JText("r9"))
DataLists ==
    { JList(<< >>) } \cup
    { JList(<<e>> \o [i \in 1..k |-> FurtherData]) :
        e \in DataEntries, k \in 0..(MaxData - 1) }

\* values of "data" that are not a list
DataNotAList == { JNull, JText("x"), Obj1(key_id, JText("r1")) }

\* a record as recordsUpdate describes it, with or without "id" and
\* "lastChangeDate"
RecordEntry(id, content, record_ttl, changed) ==
    JDict((IF id = None THEN << >> ELSE <<key_id>>) \o <<key_name, key_content, key_ttl>>
            \o (IF changed THEN <<key_lastChangeDate>> ELSE << >>),
          id \o <<JText("home.example.com"), JText(content), JInt(record_ttl)>>
            \o (IF changed THEN <<JText("2024-01-01T00:00:00Z")>> ELSE << >>))

\* entries of the "records" list of a recordsUpdate response
RecordEntries ==
    { RecordEntry(Some(JText("r1")), "203.0.113.5", 300, TRUE),
      RecordEntry(Some(JText("r2")), "2001:db8::5", 60, TRUE),
      RecordEntry(Some(JText("r1")), "203.0.113.5", 300, FALSE),
      JText("r1") }

RecordLists == { JList(s) : s \in SeqsUpTo(RecordEntries, MaxRecords) }

\* values of "records" that are not a list
RecordsNotAList == { JNull, JStr(<< >>), Obj1(key_id, JText("r1")) }

EmptyPayload == JDict(<< >>, << >>)

\* values of "response" that are not an object
PayloadsNotAnObject == { JNull, JList(<< >>) }

\* the "response" of a recordsFind answer
FindPayloads ==
    { EmptyPayload } \cup PayloadsNotAnObject
    \cup { Obj1(key_data, d) : d \in DataLists \cup DataNotAList }

\* the "response" of a recordsUpdate answer
UpdatePayloads ==
    { EmptyPayload } \cup PayloadsNotAnObject
    \cup { Obj1(key_records, r) : r \in RecordLists \cup RecordsNotAList }

\* requests.post returned a response
HttpResponse(status_code, utf8, text, json) ==
    [answered |-> TRUE, status_code |-> status_code, utf8 |-> utf8,
     text |-> text, json |-> json]

\* requests.post raised instead (no connection, timeout)
Unanswered ==
    [answered |-> FALSE, status_code |-> 0, utf8 |-> FALSE, text |-> << >>, json |-> None]

\* a response whose body is the JSON document v
JsonResponse(status_code, v) == HttpResponse(status_code, TRUE, << >>, Some(v))

\* answers with a status other than 200: JSON, plain text, or bytes that are
\* neither JSON nor UTF-8
HttpErrorResponses ==
    { JsonResponse(401, Obj1(key_error, JText("can't"))),
      HttpResponse(503, TRUE, Str("Service Unavailable"), None),
      HttpResponse(503, FALSE, << >>, None) }

\* a 200 answer whose body is not JSON
NonJsonResponse == HttpResponse(200, TRUE, Str("<html>maintenance</html>"), None)

\* a 200 JSON object with or without "errors" and "response"
Json200(errors, response) ==
    JsonResponse(200,
        JDict((IF errors = None THEN << >> ELSE <<key_errors>>)
                \o (IF response = None THEN << >> ELSE <<key_response>>),
              errors \o response))

\* 200 answers whose JSON body is not an object
NotAnObject200 == { JsonResponse(200, JList(<< >>)), JsonResponse(200, JNull) }

\* every answer to a request whose successful payload is one of Payloads
Responses(Payloads) ==
    HttpErrorResponses \cup {Unanswered, NonJsonResponse} \cup NotAnObject200
    \cup { Json200(Some(e), r) : e \in ErrorLists, r \in {None, Some(EmptyPayload)} }
    \cup { Json200(Some(e), Some(EmptyPayload)) : e \in ErrorsNotAList }
    \cup { Json200(Some(JList(<< >>)), r) : r \in {None, Some(EmptyPayload)} }
    \cup { Json200(None, r) : r \in {None} \cup {Some(p) : p \in Payloads} }

FindResponses == Responses(FindPayloads)
UpdateResponses == Responses(UpdatePayloads)

-----------------------------------------------------------------------------
(* HostingDEDNSAPIClient *)

\* the messages of the client's own errors
NoMatchingRecord == JText("No matching record found.")
MoreThanOneMatchingRecord == JText("More than one matching record found, cannot continue.")
NoIdInResponse == JText("Could not find ID for record in response.")
UpdatedRecordMissing ==
    JText("Update succeeded, but failed to find updated record in success response. This should not happen.")
UpdatedRecordAmbiguous ==
    JText("Update succeeded, but found more than one result in success response. This should not happen.")

MinTtl == 60

FindRequest(record_name, record_type) ==
    [endpoint |-> "recordsFind", name |-> record_name, type |-> record_type,
     id |-> None, content |-> None, ttl |-> None]

\* the checks of get_resource_record_id on result["data"]
\* variant: the first of several matches is taken
check_data_mut_first(data) ==
    IF ~HasLen(data) THEN PyRaise("TypeError", JNull)
    ELSE IF PyLen(data) = 0
    THEN DNSAPIException(JInt(404), NoMatchingRecord)
    ELSE LET first == PySubscript0(data) IN
         IF first.kind /= "return" THEN first
         ELSE IF first.value[1].t /= "dict" THEN PyRaise("AttributeError", JNull)
         ELSE IF ~PyTruthy(Get(first.value[1], key_id))
         THEN DNSAPIException(JInt(404), NoIdInResponse)
         ELSE Return(Get(first.value[1], key_id))

check_data(data) ==
    IF ~HasLen(data) THEN PyRaise("TypeError", JNull)
    ELSE IF PyLen(data) = 0
    THEN DNSAPIException(JInt(404), NoMatchingRecord)
    ELSE IF PyLen(data) > 1
    THEN DNSAPIException(JInt(400),
            MoreThanOneMatchingRecord)
    ELSE LET first == PySubscript0(data) IN
         IF first.kind /= "return" THEN first
         ELSE IF first.value[1].t /= "dict" THEN PyRaise("AttributeError", JNull)
         ELSE IF ~PyTruthy(Get(first.value[1], key_id))
         THEN DNSAPIException(JInt(404), NoIdInResponse)
         ELSE Return(Get(first.value[1], key_id))

\* get_resource_record_id, applied to the provider's answer to recordsFind
get_resource_record_id(response) ==
    LET r == api_request(response) IN
    IF r.kind /= "return" THEN r
    ELSE LET data == PySubscript(r.value[1], key_data) IN
         IF data.kind /= "return" THEN data
         ELSE check_data(data.value[1])

\* the "ttl" of the record sent to recordsUpdate
\* variant: > instead of >=
recordsToModify_ttl_mut_strict(record_ttl, dflt) ==
    IF TruthyInt(record_ttl) /\ record_ttl[1] > MinTtl THEN record_ttl[1] ELSE dflt

recordsToModify_ttl(record_ttl, dflt) ==
    IF TruthyInt(record_ttl) /\ record_ttl[1] >= MinTtl THEN record_ttl[1] ELSE dflt

UpdateRequest(rid, record_name, record_type, record_data, record_ttl, dflt) ==
    [endpoint |-> "recordsUpdate", name |-> record_name, type |-> record_type,
     id |-> Some(rid), content |-> Some(record_data),
     ttl |-> Some(recordsToModify_ttl(record_ttl, dflt))]

\* list(filter(lambda entry: entry.get("id") == record_id, records)) and the
\* checks on it, for records that can be iterated
\* variant: the first of several updated records is returned
filter_records_mut_first(records, rid) ==
    LET entries == PyIter(records)
        filtered == SelectSeq(entries, LAMBDA entry : PyEq(Get(entry, key_id), rid))
    IN  IF \E i \in 1..Len(entries) : entries[i].t /= "dict"
        THEN PyRaise("AttributeError", JNull)
        ELSE IF Len(filtered) = 0
        THEN DNSAPIException(JInt(500),
               UpdatedRecordMissing)
        ELSE Return(filtered[1])

filter_records(records, rid) ==
    LET entries == PyIter(records)
        filtered == SelectSeq(entries, LAMBDA entry : PyEq(Get(entry, key_id), rid))
    IN  IF \E i \in 1..Len(entries) : entries[i].t /= "dict"
        THEN PyRaise("AttributeError", JNull)
        ELSE IF Len(filtered) = 0
        THEN DNSAPIException(JInt(500),
               UpdatedRecordMissing)
        ELSE IF Len(filtered) > 1
        THEN DNSAPIException(JInt(500),
               UpdatedRecordAmbiguous)
        ELSE Return(filtered[1])

\* update_resource_record after the lookup, applied to the provider's answer
\* to recordsUpdate
update_resource_record(response, rid) ==
    LET r == api_request(response) IN
    IF r.kind /= "return" THEN r
    ELSE LET result == r.value[1] IN
         IF result.t /= "dict" THEN PyRaise("AttributeError", JNull)
         ELSE IF ~HasKey(result, key_records) THEN filter_records(JList(<< >>), rid)
         ELSE IF ~HasLen(Get(result, key_records)) THEN PyRaise("TypeError", JNull)
         ELSE filter_records(Get(result, key_records), rid)

-----------------------------------------------------------------------------
(* Root *)

Domains == {"home.example.com", "other.example.com"}

\* shapes the configuration value main.allowed_domains can have
AllowedDomainsShapes ==
    {[type |-> "bool", flag |-> b, items |-> << >>] : b \in BOOLEAN}
    \cup {[type |-> "list", flag |-> FALSE, items |-> s] : s \in SeqsUpTo(Domains, MaxAllowed)}
    \cup {[type |-> "str", flag |-> FALSE, items |-> s] : s \in {<< >>, <<"home.example.com">>}}

\* bool(allowed_domains)
TruthyAllowed(a) ==
    IF a.type = "bool" THEN a.flag ELSE Len(a.items) > 0

\* Root.__init__: a truthy value that is not a list is rejected
Root_init(a) ==
    IF TruthyAllowed(a) /\ a.type /= "list"
    THEN PyRaise("ValueError", JNull)
    ELSE Return(a)

\* domain in self.allowed_domains
InAllowed(d, a) == \E i \in 1..Len(a.items) : a.items[i] = d

\* "\n".join(results)
RECURSIVE Join(_)
Join(lines) ==
    IF Len(lines) = 0 THEN << >>
    ELSE IF Len(lines) = 1 THEN lines[1]
    ELSE lines[1] \o <<10>> \o Join(Tail(lines))

FrameworkErrorPage == Str("500 Internal Server Error")

\* the literal parts of the lines update_wrapper writes
SuccessfullyUpdated == Str("Successfully updated ")
RecordFor == Str(" record for ")
To == Str(" to ")
FailedToUpdate == Str("Failed to update ")
RecordColon == Str(" record: ")

\* the bodies of the requests dyndns refuses
DomainMissing == Str("DynDNS target domain missing.")
DomainNotAllowed == Str("Requested DynDNS domain ist not on the allowlist.")
NoAddressGiven == Str("Neither a v4 nor a v6 address given.")

\* Root.dyndns.update_wrapper, applied to the outcome of update_resource_record:
\* the line appended to results ("return" on success, "caught" on a
\* DNSAPIException), or the exception that leaves the wrapper
update_wrapper(record_type, o) ==
    IF o.kind = "return"
    THEN LET result == o.value[1] IN
         IF ~HasKey(result, key_name) THEN PyRaise("KeyError", JStr(key_name))
         ELSE IF ~HasKey(result, key_content) THEN PyRaise("KeyError", JStr(key_content))
         ELSE IF ~HasKey(result, key_ttl) THEN PyRaise("KeyError", JStr(key_ttl))
         ELSE IF ~HasKey(result, key_lastChangeDate) THEN PyRaise("KeyError", JStr(key_lastChangeDate))
         ELSE [kind |-> "return", error_code |-> JNull, error_data |-> JNull,
               value |-> Some(SuccessfullyUpdated \o Str(record_type) \o RecordFor
                              \o PyStr(Get(result, key_name)) \o To
                              \o PyStr(Get(result, key_content)))]
    ELSE IF o.kind = "DNSAPIException"
    THEN [kind |-> "caught", error_code |-> JNull, error_data |-> JNull,
          value |-> Some(FailedToUpdate \o Str(record_type) \o RecordColon
                         \o DNSAPIException_str(o))]
    ELSE o

-----------------------------------------------------------------------------
(* Requests *)

DomainParams == {None, Some("")} \cup {Some(d) : d \in Domains}
Ipv4Params == {None, Some(""), Some("203.0.113.5")}
Ipv6Params == {None, Some(""), Some("2001:db8::5")}
TtlParams == {None} \cup {Some(n) : n \in (-1..1) \cup ((MinTtl - 1)..MaxTtl)}
DefaultTtls == {30, 3600}

\* the ttl values of whole requests: absent, falsy, and one that is sent
RequestTtls == {None, Some(0), Some(MaxTtl)}

\* the address supplied for a record type
record_data(record_type) == IF record_type = "A" THEN ipv4[1] ELSE ipv6[1]

-----------------------------------------------------------------------------
(* Specification Spec: one request to Root.dyndns, from arrival to response *)

Init ==
    /\ allowed_domains \in {a \in AllowedDomainsShapes : Root_init(a).kind = "return"}
    /\ default_ttl \in DefaultTtls
    /\ domain \in DomainParams
    /\ ipv4 \in Ipv4Params
    /\ ipv6 \in Ipv6Params
    /\ ttl \in RequestTtls
    /\ pc = "dyndns"
    /\ cur = "-"
    /\ record_id = None
    /\ status = 200
    /\ results = << >>
    /\ body = << >>
    /\ calls = << >>
    /\ exc = NoOutcome
    /\ resp = << >>
    /\ ret = NoOutcome

\* if not domain
\* variant: if domain is None
domain_missing_mut_none(d) == d = None

domain_missing(d) == ~TruthyStr(d)

\* if self.allowed_domains and domain not in self.allowed_domains
\* variant: an empty list forbids every domain
domain_forbidden_mut_any_list(d, a) == a.type = "list" /\ ~InAllowed(d[1], a)

domain_forbidden(d, a) == TruthyAllowed(a) /\ ~InAllowed(d[1], a)

\* if not ipv4 and not ipv6
\* variant: if ipv4 is None and ipv6 is None
address_missing_mut_none(v4, v6) == v4 = None /\ v6 = None

address_missing(v4, v6) == ~TruthyStr(v4) /\ ~TruthyStr(v6)

\* Root.dyndns up to the first update: the three validations
dyndns ==
    /\ pc = "dyndns"
    /\ IF domain_missing(domain)
       THEN /\ status' = 400
            /\ body' = DomainMissing
            /\ pc' = "done"
            /\ cur' = cur
       ELSE IF domain_forbidden(domain, allowed_domains)
       THEN /\ status' = 403
            /\ body' = DomainNotAllowed
            /\ pc' = "done"
            /\ cur' = cur
       ELSE IF address_missing(ipv4, ipv6)
       THEN /\ status' = 400
            /\ body' = NoAddressGiven
            /\ pc' = "done"
            /\ cur' = cur
       ELSE IF TruthyStr(ipv4)
       THEN /\ cur' = "A"
            /\ pc' = "recordsFind"
            /\ UNCHANGED <<status, body>>
       ELSE IF TruthyStr(ipv6)
       THEN /\ cur' = "AAAA"
            /\ pc' = "recordsFind"
            /\ UNCHANGED <<status, body>>
       ELSE /\ body' = Join(results)
            /\ pc' = "done"
            /\ UNCHANGED <<status, cur>>
    /\ UNCHANGED <<allowed_domains, default_ttl, domain, ipv4, ipv6, ttl,
                   record_id, results, calls, exc, resp, ret>>

\* the end of update_wrapper and what Root.dyndns does next: the other family,
\* or the response
Finish(w) ==
    IF w.kind \in {"return", "caught"}
    THEN /\ results' = Append(results, w.value[1])
         /\ status' = IF w.kind = "caught" THEN 400 ELSE status
         /\ exc' = exc
         /\ IF cur = "A" /\ TruthyStr(ipv6)
            THEN /\ cur' = "AAAA"
                 /\ pc' = "recordsFind"
                 /\ body' = body
            ELSE /\ cur' = cur
                 /\ pc' = "done"
                 /\ body' = Join(results')
    ELSE /\ exc' = w
         /\ status' = 500
         /\ body' = FrameworkErrorPage
         /\ pc' = "done"
         /\ UNCHANGED <<results, cur>>

\* update_wrapper -> update_resource_record -> get_resource_record_id:
\* the recordsFind round trip
recordsFind ==
    /\ pc = "recordsFind"
    /\ \E response \in FindResponses :
         LET o == get_resource_record_id(response) IN
         /\ calls' = Append(calls, FindRequest(domain[1], cur))
         /\ IF o.kind = "return"
            THEN /\ record_id' = o.value
                 /\ pc' = "recordsUpdate"
                 /\ UNCHANGED <<status, results, body, cur, exc>>
            ELSE /\ record_id' = record_id
                 /\ Finish(update_wrapper(cur, o))
    /\ UNCHANGED <<allowed_domains, default_ttl, domain, ipv4, ipv6, ttl, resp, ret>>

\* update_resource_record after the lookup: the recordsUpdate round trip
recordsUpdate ==
    /\ pc = "recordsUpdate"
    /\ \E response \in UpdateResponses :
         LET o == update_resource_record(response, record_id[1]) IN
         /\ calls' = Append(calls, UpdateRequest(record_id[1], domain[1], cur,
                                                 record_data(cur), ttl, default_ttl))
         /\ Finish(update_wrapper(cur, o))
    /\ UNCHANGED <<allowed_domains, default_ttl, domain, ipv4, ipv6, ttl,
                   record_id, resp, ret>>

Next == dyndns \/ recordsFind \/ recordsUpdate

Spec == Init /\ [][Next]_vars

-----------------------------------------------------------------------------
(* Specification SpecApi: one call of api_request on one provider answer *)

ApiResponses == FindResponses \cup UpdateResponses

InitApi ==
    /\ allowed_domains = [type |-> "bool", flag |-> FALSE, items |-> << >>]
    /\ default_ttl \in DefaultTtls
    /\ domain = None
    /\ ipv4 = None
    /\ ipv6 = None
    /\ ttl = None
    /\ pc = "api_request"
    /\ cur = "-"
    /\ record_id = None
    /\ status = 200
    /\ results = << >>
    /\ body = << >>
    /\ calls = << >>
    /\ exc = NoOutcome
    /\ resp \in {<<r>> : r \in ApiResponses}
    /\ ret = NoOutcome

ApiRequest ==
    /\ pc = "api_request"
    /\ ret' = api_request(resp[1])
    /\ pc' = "returned"
    /\ UNCHANGED <<allowed_domains, default_ttl, domain, ipv4, ipv6, ttl, cur,
                   record_id, status, results, body, calls, exc, resp>>

NextApi == ApiRequest

SpecApi == InitApi /\ [][NextApi]_vars

-----------------------------------------------------------------------------
(* Specification SpecClient: one call of update_resource_record(domain, cur, *)
(* record_data(cur), ttl), with the provider's answers recorded in resp      *)

InitClient ==
    /\ allowed_domains = [type |-> "bool", flag |-> FALSE, items |-> << >>]
    /\ default_ttl \in DefaultTtls
    /\ domain \in {Some(d) : d \in Domains}
    /\ cur \in {"A", "AAAA"}
    /\ ipv4 = IF cur = "A" THEN Some("203.0.113.5") ELSE None
    /\ ipv6 = IF cur = "AAAA" THEN Some("2001:db8::5") ELSE None
    /\ ttl \in TtlParams
    /\ pc = "recordsFind"
    /\ record_id = None
    /\ status = 200
    /\ results = << >>
    /\ body = << >>
    /\ calls = << >>
    /\ exc = NoOutcome
    /\ resp = << >>
    /\ ret = NoOutcome

\* update_resource_record: the call of get_resource_record_id
ClientFind ==
    /\ pc = "recordsFind"
    /\ \E response \in FindResponses :
         LET o == get_resource_record_id(response) IN
         /\ calls' = Append(calls, FindRequest(domain[1], cur))
         /\ resp' = Append(resp, response)
         /\ IF o.kind = "return"
            THEN /\ record_id' = o.value
                 /\ pc' = "recordsUpdate"
                 /\ ret' = ret
            ELSE /\ record_id' = record_id
                 /\ pc' = "returned"
                 /\ ret' = o
    /\ UNCHANGED <<allowed_domains, default_ttl, domain, ipv4, ipv6, ttl, cur,
                   status, results, body, exc>>

\* update_resource_record: the recordsUpdate request and the search of its answer
ClientUpdate ==
    /\ pc = "recordsUpdate"
    /\ \E response \in UpdateResponses :
         /\ calls' = Append(calls, UpdateRequest(record_id[1], domain[1], cur,
                                                 record_data(cur), ttl, default_ttl))
         /\ resp' = Append(resp, response)
         /\ ret' = update_resource_record(response, record_id[1])
         /\ pc' = "returned"
    /\ UNCHANGED <<allowed_domains, default_ttl, domain, ipv4, ipv6, ttl, cur,
                   record_id, status, results, body, exc>>

NextClient == ClientFind \/ ClientUpdate

SpecClient == InitClient /\ [][NextClient]_vars

-----------------------------------------------------------------------------
(* Properties of the validations of Root.dyndns (specification Spec) *)

\* the request's domain is on a non-empty allow-list, or there is none
AllowListNonEmpty == allowed_domains.type = "list" /\ Len(allowed_domains.items) > 0
OnAllowList == \E i \in 1..Len(allowed_domains.items) : Some(allowed_domains.items[i]) = domain
DomainGiven == domain /= None /\ domain /= Some("")
Supplied(v) == v /= None /\ v /= Some("")
PassedValidation ==
    /\ DomainGiven
    /\ AllowListNonEmpty => OnAllowList
    /\ Supplied(ipv4) \/ Supplied(ipv6)

\* C1: a request whose domain parameter is missing or empty is answered with
\* status 400, whatever ipv4, ipv6, ttl and the allow-list are.
C1_MissingDomainIs400 ==
    (pc = "done" /\ ~DomainGiven) => status = 400

C1_Witness ==
    /\ pc = "done"
    /\ domain = Some("")
    /\ Supplied(ipv4)
    /\ ttl = Some(60)
    /\ AllowListNonEmpty
    /\ status = 400

\* C2: for a request with a non-empty domain, a non-empty allow-list that does
\* not contain the domain gives status 403, and a disabled (False) or empty
\* allow-list never gives status 403.
C2_AllowList ==
    (pc = "done" /\ DomainGiven) =>
        /\ (AllowListNonEmpty /\ ~OnAllowList) => status = 403
        /\ ~AllowListNonEmpty => status /= 403

C2_Witness ==
    /\ pc = "done"
    /\ DomainGiven
    /\ AllowListNonEmpty
    /\ ~OnAllowList
    /\ Supplied(ipv4)
    /\ status = 403
    /\ calls = << >>

\* C3 as stated: every request with neither ipv4 nor ipv6 is answered with
\* status 400 and the body "Neither a v4 nor a v6 address given."
C3_Original ==
    (pc = "done" /\ ~Supplied(ipv4) /\ ~Supplied(ipv6)) =>
        /\ status = 400
        /\ body = NoAddressGiven

\* C3 as amended: a request whose domain is non-empty and passes the allow-list
\* check, with neither ipv4 nor ipv6 (absent or empty), is answered with
\* status 400 and the body "Neither a v4 nor a v6 address given."
C3_NoAddressIs400 ==
    (pc = "done" /\ DomainGiven /\ (AllowListNonEmpty => OnAllowList)
       /\ ~Supplied(ipv4) /\ ~Supplied(ipv6)) =>
        /\ status = 400
        /\ body = NoAddressGiven

C3_Witness ==
    /\ pc = "done"
    /\ DomainGiven
    /\ AllowListNonEmpty
    /\ OnAllowList
    /\ ipv4 = Some("")
    /\ ipv6 = None
    /\ status = 400
    /\ body = NoAddressGiven

-----------------------------------------------------------------------------
(* Properties of update_resource_record (specification SpecClient) *)

\* C4: the ttl of every recordsUpdate request is the caller's ttl when that is
\* present and at least 60, and the configured default TTL otherwise.
C4_TtlSent ==
    \A i \in 1..Len(calls) :
        calls[i].endpoint = "recordsUpdate" =>
            calls[i].ttl = IF ttl /= None /\ ttl[1] >= 60
                           THEN ttl
                           ELSE Some(default_ttl)

C4_Witness ==
    /\ pc = "returned"
    /\ Len(calls) = 2
    /\ calls[2].endpoint = "recordsUpdate"
    /\ ttl = Some(59)
    /\ calls[2].ttl = Some(default_ttl)

\* the JSON object of a 200 answer, if the body is one
IsObject200(r) ==
    r.answered /\ r.status_code = 200 /\ r.json /= None /\ r.json[1].t = "dict"

\* the body has an "errors" list with at least one entry
HasEmbeddedErrors(r) ==
    /\ HasKey(r.json[1], key_errors)
    /\ Get(r.json[1], key_errors).t = "list"
    /\ Len(Get(r.json[1], key_errors).items) > 0

\* the body has no "errors", or an empty "errors" (a list; likewise a string or
\* an object)
NoEmbeddedErrors(r) ==
    \/ ~HasKey(r.json[1], key_errors)
    \/ Get(r.json[1], key_errors) \in {JList(<< >>), JStr(<< >>), JDict(<< >>, << >>)}

\* the provider reports success: status 200, a JSON object without embedded
\* errors, and a "response"
ReportsSuccess(r) ==
    IsObject200(r) /\ NoEmbeddedErrors(r) /\ HasKey(r.json[1], key_response)

\* what the answer to recordsFind holds when the provider reports success with
\* a list of matches: the "data" list, or None
FoundData(f) ==
    IF /\ ReportsSuccess(f)
       /\ Get(f.json[1], key_response).t = "dict"
       /\ HasKey(Get(f.json[1], key_response), key_data)
       /\ Get(Get(f.json[1], key_response), key_data).t = "list"
    THEN Some(Get(Get(f.json[1], key_response), key_data).items)
    ELSE None

\* a match that is a record without an identifier, or with an empty one
LacksIdentifier(entry) ==
    /\ entry.t = "dict"
    /\ ~HasKey(entry, key_id) \/ Get(entry, key_id) \in {JNull, JStr(<< >>)}

\* C8: a recordsUpdate request is sent only after the recordsFind lookup for
\* the same (name, type) returned exactly one match with a non-empty
\* identifier, and it names that identifier; zero matches (404), more than one
\* match (400) and a match without identifier (404) are returned as the error
\* of the call and no recordsUpdate request is sent.
C8_LookupThenUpdate ==
    /\ \A i \in 1..Len(calls) :
         calls[i].endpoint = "recordsUpdate" =>
            /\ i = 2
            /\ calls[1].endpoint = "recordsFind"
            /\ calls[1].name = calls[2].name
            /\ calls[1].type = calls[2].type
            /\ FoundData(resp[1]) /= None
            /\ Len(FoundData(resp[1])[1]) = 1
            /\ FoundData(resp[1])[1][1].t = "dict"
            /\ ~LacksIdentifier(FoundData(resp[1])[1][1])
            /\ calls[2].id = Some(Get(FoundData(resp[1])[1][1], key_id))
    /\ (Len(resp) >= 1 /\ FoundData(resp[1]) /= None) =>
         LET data == FoundData(resp[1])[1] IN
         /\ Len(data) = 0 =>
              /\ Len(calls) = 1
              /\ pc = "returned"
              /\ ret = DNSAPIException(JInt(404), NoMatchingRecord)
         /\ Len(data) > 1 =>
              /\ Len(calls) = 1
              /\ pc = "returned"
              /\ ret.kind = "DNSAPIException"
              /\ ret.error_code = JInt(400)
         /\ (Len(data) = 1 /\ LacksIdentifier(data[1])) =>
              /\ Len(calls) = 1
              /\ pc = "returned"
              /\ ret.kind = "DNSAPIException"
              /\ ret.error_code = JInt(404)

C8_Witness ==
    /\ Len(calls) = 2
    /\ calls[2].endpoint = "recordsUpdate"
    /\ calls[2].id = Some(JText("r2"))
    /\ calls[2].type = "AAAA"
    /\ FoundData(resp[1]) = Some(<<Obj1(key_id, JText("r2"))>>)

\* what the answer to recordsUpdate holds when the provider reports success
\* with a collection of records: the "records" list ([] when the key is
\* absent), or None
UpdatedRecords(u) ==
    IF ReportsSuccess(u) /\ Get(u.json[1], key_response).t = "dict"
    THEN LET result == Get(u.json[1], key_response) IN
         IF ~HasKey(result, key_records) THEN Some(<< >>)
         ELSE IF /\ Get(result, key_records).t = "list"
                 /\ \A i \in 1..Len(Get(result, key_records).items) :
                       Get(result, key_records).items[i].t = "dict"
         THEN Some(Get(result, key_records).items)
         ELSE None
    ELSE None

\* C9: after a recordsUpdate the provider reports as successful, the call
\* returns a record iff exactly one record of the answer has the identifier
\* just updated, and returns that one; zero such records (also when the
\* collection is absent) and more than one fail with code 500.
C9_UpdatedRecord ==
    (pc = "returned" /\ Len(resp) = 2 /\ UpdatedRecords(resp[2]) /= None) =>
        LET records == UpdatedRecords(resp[2])[1]
            hits == {i \in 1..Len(records) :
                        HasKey(records[i], key_id) /\ Some(Get(records[i], key_id)) = calls[2].id}
        IN  /\ ret.kind = "return" <=> Cardinality(hits) = 1
            /\ Cardinality(hits) = 1 => \A i \in hits : ret.value = Some(records[i])
            /\ Cardinality(hits) /= 1 =>
                  /\ ret.kind = "DNSAPIException"
                  /\ ret.error_code = JInt(500)

C9_Witness ==
    /\ pc = "returned"
    /\ Len(resp) = 2
    /\ UpdatedRecords(resp[2]) /= None
    /\ Len(UpdatedRecords(resp[2])[1]) = 2
    /\ Some(Get(UpdatedRecords(resp[2])[1][1], key_id)) /= calls[2].id
    /\ Some(Get(UpdatedRecords(resp[2])[1][2], key_id)) = calls[2].id
    /\ ret.kind = "return"

-----------------------------------------------------------------------------
(* Properties of api_request (specification SpecApi) *)

\* the first entry of the embedded errors
FirstError(r) == Get(r.json[1], key_errors).items[1]

\* the message the claim gives to an embedded error
MessageOf(first, with_value) ==
    IF with_value
    THEN JStr(PyStr(Get(first, key_value)) \o Dash \o PyStr(Get(first, key_text)))
    ELSE Get(first, key_text)

\* C7: the payload is returned iff the status is 200 and the body has no
\* non-empty errors list; a non-200 status raises a DNSAPIException with the
\* HTTP status as code; a 200 with a non-empty errors list raises a
\* DNSAPIException with the first entry's code and the message
\* "{value} - {text}" when the entry carries a value, "{text}" otherwise.
C7_Claim ==
    (pc = "returned" /\ resp[1].answered) =>
        LET r == resp[1] IN
        /\ ret.kind = "return" <=>
              (r.status_code = 200 /\ ~(IsObject200(r) /\ HasEmbeddedErrors(r)))
        /\ r.status_code /= 200 =>
              /\ ret.kind = "DNSAPIException"
              /\ ret.error_code = JInt(r.status_code)
        /\ (IsObject200(r) /\ HasEmbeddedErrors(r)) =>
              LET first == FirstError(r) IN
              /\ ret.kind = "DNSAPIException"
              /\ first.t = "dict"
              /\ ret.error_code = Get(first, key_code)
              /\ ret.error_data = MessageOf(first, HasKey(first, key_value))

\* C7 restricted to the calls that return or raise a DNSAPIException, with
\* "carries a value" read as "carries a value that is not empty"
C7_UnlessEscaped ==
    (pc = "returned" /\ resp[1].answered /\ ret.kind \in {"return", "DNSAPIException"}) =>
        LET r == resp[1] IN
        /\ ret.kind = "return" <=>
              (r.status_code = 200 /\ ~(IsObject200(r) /\ HasEmbeddedErrors(r)))
        /\ ret.kind = "return" => ret.value = Some(Get(r.json[1], key_response))
        /\ r.status_code /= 200 =>
              /\ ret.kind = "DNSAPIException"
              /\ ret.error_code = JInt(r.status_code)
        /\ (IsObject200(r) /\ HasEmbeddedErrors(r)) =>
              LET first == FirstError(r) IN
              /\ ret.kind = "DNSAPIException"
              /\ ret.error_code = Get(first, key_code)
              /\ ret.error_data =
                    MessageOf(first, HasKey(first, key_value) /\ PyTruthy(Get(first, key_value)))

-----------------------------------------------------------------------------
(* Properties of one whole request (specification Spec) *)

CallsOf(endpoint, record_type) ==
    {i \in 1..Len(calls) : calls[i].endpoint = endpoint /\ calls[i].type = record_type}

SuppliedFor(record_type) == IF record_type = "A" THEN Supplied(ipv4) ELSE Supplied(ipv6)

SuppliedCount == (IF Supplied(ipv4) THEN 1 ELSE 0) + (IF Supplied(ipv6) THEN 1 ELSE 0)

\* the lines update_wrapper writes on success
SuccessLines ==
    { SuccessfullyUpdated \o Str(t) \o RecordFor \o Get(e, key_name).s
        \o To \o Get(e, key_content).s :
        t \in {"A", "AAAA"}, e \in {x \in RecordEntries : x.t = "dict"} }

\* C5: for a request that passes validation, each supplied family is attempted
\* exactly once whether or not the other failed, the body holds one outcome
\* line per supplied family, the status is 400 if a supplied family failed and
\* 200 only if every supplied family succeeded.
C5_Claim ==
    (pc = "done" /\ PassedValidation) =>
        /\ \A t \in {"A", "AAAA"} :
              Cardinality(CallsOf("recordsFind", t)) = IF SuppliedFor(t) THEN 1 ELSE 0
        /\ Len(results) = SuppliedCount
        /\ body = Join(results)
        /\ status \in {200, 400}
        /\ status = 200 <=> \A i \in 1..Len(results) : results[i] \in SuccessLines

\* C5 restricted to the requests in which no exception leaves update_wrapper
C5_UnlessEscaped ==
    (pc = "done" /\ PassedValidation /\ exc.kind = "none") =>
        /\ \A t \in {"A", "AAAA"} :
              Cardinality(CallsOf("recordsFind", t)) = IF SuppliedFor(t) THEN 1 ELSE 0
        /\ Len(results) = SuppliedCount
        /\ body = Join(results)
        /\ status \in {200, 400}
        /\ status = 200 <=> \A i \in 1..Len(results) : results[i] \in SuccessLines

\* C6: for a request that passes validation, whatever the provider answers,
\* no exception leaves the dyndns handler: every failure is a result line and
\* the status 400.
C6_Claim ==
    (pc = "done" /\ PassedValidation) =>
        /\ exc.kind = "none"
        /\ status \in {200, 400}
        /\ Len(results) = SuppliedCount

\* the upstream calls of one whole request, as C10 counts them
CallsAsCounted ==
    /\ \A t \in {"A", "AAAA"} :
          /\ Cardinality(CallsOf("recordsFind", t)) = IF SuppliedFor(t) THEN 1 ELSE 0
          /\ Cardinality(CallsOf("recordsUpdate", t)) <= 1
          /\ \A i \in CallsOf("recordsUpdate", t) :
                i > 1 /\ calls[i - 1].endpoint = "recordsFind" /\ calls[i - 1].type = t
    /\ \A i \in CallsOf("recordsFind", "A") \cup CallsOf("recordsUpdate", "A") :
          \A j \in CallsOf("recordsFind", "AAAA") \cup CallsOf("recordsUpdate", "AAAA") : i < j

\* C10: a request that fails validation sends nothing to the provider; a
\* request that passes validation sends, for each supplied family and in the
\* order A then AAAA, exactly one recordsFind and at most one recordsUpdate,
\* and repeats no call.
C10_Claim ==
    /\ ~PassedValidation => calls = << >>
    /\ (pc = "done" /\ PassedValidation) => CallsAsCounted

\* C10 restricted to the requests in which no exception leaves update_wrapper
C10_UnlessEscaped ==
    /\ ~PassedValidation => calls = << >>
    /\ (pc = "done" /\ PassedValidation /\ exc.kind = "none") => CallsAsCounted

====
